---- MODULE Spec2Model ----
(***************************************************************************)
(* Boat-hauling record keeper: the Customer and Job entities, the          *)
(* BoatHaulingManager of ECM_Haul_Streamlit_Cleaned.py (variant "cli")     *)
(* and the session-state script of ECM_Haul_Streamlit_v2.py (variant       *)
(* "v2"), with the two JSON backing files they share.                      *)
(*                                                                         *)
(* Representation.  Free text is a sequence of one-character strings, so   *)
(* that lower() and the substring test are computed.  An identifier is a   *)
(* natural number; 0 stands for the empty string / None (falsy).  A        *)
(* timestamp is a record of its numeric fields with a flag telling whether *)
(* the text is zero padded; created_at / updated_at are minutes of the     *)
(* clock.  A price is tagged: a float, a numeric string, or other text.    *)
(* A dict is a sequence of (key, val) entries in insertion order.          *)
(***************************************************************************)
EXTENDS Integers, Sequences, FiniteSets, TLC

\* Bound of the model: the number of steps (operations and clock ticks) of a run.
MaxSteps == 5

VARIABLES variant, phase, customers, jobs, custFile, jobFile, now, last, steps

vars == <<variant, phase, customers, jobs, custFile, jobFile, now, last, steps>>

--------------------------------------------------------------------------
\* Text

UpperChars == <<"A","B","C","D","E","F","G","H","I","J","K","L","M",
                "N","O","P","Q","R","S","T","U","V","W","X","Y","Z">>
LowerChars == <<"a","b","c","d","e","f","g","h","i","j","k","l","m",
                "n","o","p","q","r","s","t","u","v","w","x","y","z">>

\* str.lower() on one character
lower_char(c) ==
  IF \E i \in 1..Len(UpperChars) : UpperChars[i] = c
  THEN LowerChars[CHOOSE i \in 1..Len(UpperChars) : UpperChars[i] = c]
  ELSE c

\* str.lower()
lower(s) == [i \in 1..Len(s) |-> lower_char(s[i])]

\* Python's `t in s` on strings: t occurs in s as a contiguous run
str_in(t, s) ==
  \E i \in 1..(Len(s) - Len(t) + 1) : SubSeq(s, i, i + Len(t) - 1) = t

\* An input line carrying surrounding blanks: lpad blanks, core, rpad blanks.
\* core neither starts nor ends with a blank.  str.strip() leaves the core.
strip(inp) == inp.core

--------------------------------------------------------------------------
\* Dicts (insertion ordered)

Keys(d) == {d[i].key : i \in 1..Len(d)}

HasKey(d, k) == k \in Keys(d)

Get(d, k) == d[CHOOSE i \in 1..Len(d) : d[i].key = k].val

\* d[k] = v : replaces in place, or appends a new key
Put(d, k, v) ==
  IF HasKey(d, k)
  THEN [i \in 1..Len(d) |-> IF d[i].key = k THEN [key |-> k, val |-> v] ELSE d[i]]
  ELSE Append(d, [key |-> k, val |-> v])

Values(d) == [i \in 1..Len(d) |-> d[i].val]

\* Python truthiness of an identifier ("" and None are falsy)
Truthy(id) == id # 0

\* binding **data to a parameter list: unexpected or missing keys are a TypeError
Binds(data, params, required) ==
  /\ (DOMAIN data) \subseteq params
  /\ required \subseteq (DOMAIN data)

Arg(data, k, default) == IF k \in DOMAIN data THEN data[k] ELSE default

Ok(v) == [ok |-> TRUE, val |-> v]
Raise(e) == [ok |-> FALSE, err |-> e]

--------------------------------------------------------------------------
\* Timestamps, DATETIME_FORMAT = "%Y-%m-%d %H:%M"

IsLeap(y) == (y % 4 = 0 /\ y % 100 # 0) \/ y % 400 = 0

DaysIn(y, m) ==
  IF m = 2 THEN (IF IsLeap(y) THEN 29 ELSE 28)
  ELSE IF m \in {4, 6, 9, 11} THEN 30 ELSE 31

\* datetime.strptime(s, DATETIME_FORMAT) succeeds
strptime_ok(s) ==
  /\ s.mo \in 1..12
  /\ s.d >= 1 /\ s.d <= DaysIn(s.y, s.mo)
  /\ s.h \in 0..23
  /\ s.mi \in 0..59

\* the parsed datetime, as minutes in an order-preserving encoding
strptime(s) == ((((s.y * 12 + s.mo) * 31 + s.d) * 24 + s.h) * 60) + s.mi

\* strptime(...).strftime(DATETIME_FORMAT): the zero-padded text
strftime(s) == [s EXCEPT !.pad = TRUE]

--------------------------------------------------------------------------
\* Prices

\* float(x): a float or a numeric string converts, other text is a ValueError
float_ok(x) == x.t \in {"float", "str"}
float(x) == [t |-> "float", v |-> x.v]

--------------------------------------------------------------------------
\* Customer (ECM_Haul_Streamlit_Cleaned.py)

CustomerParams == {"name", "phone", "email", "address", "boat_make",
                   "boat_model", "boat_length", "boat_name", "customer_id"}
CustomerRequired == {"name", "phone", "email", "address", "boat_make",
                     "boat_model", "boat_length"}

\* Customer.__init__; uuid is the value str(uuid.uuid4()) would give
Customer_init(a, uuid) ==
  [customer_id |-> IF Truthy(a.customer_id) THEN a.customer_id ELSE uuid,
   name        |-> a.name,
   phone       |-> a.phone,
   email       |-> a.email,
   address     |-> a.address,
   boat_make   |-> a.boat_make,
   boat_model  |-> a.boat_model,
   boat_length |-> a.boat_length,
   boat_name   |-> a.boat_name]

\* Customer.to_dict: the object's own attribute dict
Customer_to_dict(c) == c

\* Customer.from_dict: Customer(**data)
Customer_from_dict(data, uuid) ==
  IF Binds(data, CustomerParams, CustomerRequired)
  THEN Ok(Customer_init(
         [name        |-> data.name,
          phone       |-> data.phone,
          email       |-> data.email,
          address     |-> data.address,
          boat_make   |-> data.boat_make,
          boat_model  |-> data.boat_model,
          boat_length |-> data.boat_length,
          boat_name   |-> Arg(data, "boat_name", <<>>),
          customer_id |-> Arg(data, "customer_id", 0)], uuid))
  ELSE Raise("TypeError")

--------------------------------------------------------------------------
\* Job (ECM_Haul_Streamlit_Cleaned.py)

VALID_STATUSES == {"Scheduled", "In Progress", "Completed", "Cancelled",
                   "Invoiced", "Paid"}

JobParams == {"customer_id", "service_type", "scheduled_datetime_str",
              "origin_location", "destination_location", "quoted_price",
              "notes", "job_id", "status"}
JobRequired == {"customer_id", "service_type", "scheduled_datetime_str",
                "origin_location", "destination_location", "quoted_price"}

\* Job.__init__; t is datetime.now() formatted
Job_init(a, uuid, t) ==
  IF ~strptime_ok(a.scheduled_datetime_str) THEN Raise("ValueError")
  ELSE IF ~float_ok(a.quoted_price) THEN Raise("ValueError")
  ELSE Ok(
    [job_id               |-> IF Truthy(a.job_id) THEN a.job_id ELSE uuid,
     customer_id          |-> a.customer_id,
     service_type         |-> a.service_type,
     scheduled_datetime   |-> strftime(a.scheduled_datetime_str),
     origin_location      |-> a.origin_location,
     destination_location |-> a.destination_location,
     quoted_price         |-> float(a.quoted_price),
     status               |-> IF a.status \in VALID_STATUSES THEN a.status
                              ELSE "Scheduled",
     notes                |-> a.notes,
     created_at           |-> t,
     updated_at           |-> t])

\* Job.to_dict: the object's own attribute dict
Job_to_dict(j) == j

\* Job.from_dict: Job(**data)
Job_from_dict(data, uuid, t) ==
  IF Binds(data, JobParams, JobRequired)
  THEN Job_init(
         [customer_id            |-> data.customer_id,
          service_type           |-> data.service_type,
          scheduled_datetime_str |-> data.scheduled_datetime_str,
          origin_location        |-> data.origin_location,
          destination_location   |-> data.destination_location,
          quoted_price           |-> data.quoted_price,
          notes                  |-> Arg(data, "notes", <<>>),
          job_id                 |-> Arg(data, "job_id", 0),
          status                 |-> Arg(data, "status", "Scheduled")], uuid, t)
  ELSE Raise("TypeError")

\* Job.update_status with the timestamp refreshed ahead of the membership test
Job_update_status_touching(j, new_status, t) ==
  IF new_status \in VALID_STATUSES
  THEN [ret |-> TRUE, job |-> [j EXCEPT !.status = new_status, !.updated_at = t]]
  ELSE [ret |-> FALSE, job |-> [j EXCEPT !.updated_at = t]]

\* Job.update_status: the return value and the job afterwards
Job_update_status(j, new_status, t) ==
  IF new_status \in VALID_STATUSES
  THEN [ret |-> TRUE, job |-> [j EXCEPT !.status = new_status, !.updated_at = t]]
  ELSE [ret |-> FALSE, job |-> j]

--------------------------------------------------------------------------
\* Customer and Job (ECM_Haul_Streamlit_v2.py)

V2_VALID_STATUSES == {"Scheduled", "In Progress", "Completed", "Cancelled"}

V2_JobParams == {"customer_id", "service_type", "scheduled_dt", "origin",
                 "destination", "quoted_price", "notes", "job_id", "status"}
V2_JobRequired == {"customer_id", "service_type", "scheduled_dt", "origin",
                   "destination", "quoted_price"}

\* Customer.__init__ followed by to_dict
V2_Customer_init(a, uuid) ==
  [customer_id |-> IF Truthy(a.customer_id) THEN a.customer_id ELSE uuid,
   name        |-> a.name,
   phone       |-> a.phone,
   email       |-> a.email,
   address     |-> a.address,
   boat_make   |-> a.boat_make,
   boat_model  |-> a.boat_model]

\* Job.__init__; scheduled_dt must be a datetime object (isdt), a value read
\* from JSON has no strftime
V2_Job_init(a, uuid, t) ==
  IF ~a.scheduled_dt.isdt THEN Raise("AttributeError")
  ELSE Ok(
    [job_id               |-> IF Truthy(a.job_id) THEN a.job_id ELSE uuid,
     customer_id          |-> a.customer_id,
     service_type         |-> a.service_type,
     scheduled_datetime   |-> strftime(a.scheduled_dt.at),
     origin_location      |-> a.origin,
     destination_location |-> IF a.destination # <<>> THEN a.destination
                              ELSE a.origin,
     quoted_price         |-> a.quoted_price,
     notes                |-> a.notes,
     status               |-> a.status,
     created_at           |-> t,
     updated_at           |-> t])

\* Job(**job_data) as the Update Job Status branch calls it
V2_Job_from_data(data, uuid, t) ==
  IF Binds(data, V2_JobParams, V2_JobRequired)
  THEN V2_Job_init(
         [customer_id  |-> data.customer_id,
          service_type |-> data.service_type,
          scheduled_dt |-> [isdt |-> FALSE, at |-> data.scheduled_dt],
          origin       |-> data.origin,
          destination  |-> data.destination,
          quoted_price |-> data.quoted_price,
          notes        |-> Arg(data, "notes", <<>>),
          job_id       |-> Arg(data, "job_id", 0),
          status       |-> Arg(data, "status", "Scheduled")], uuid, t)
  ELSE Raise("TypeError")

\* Job.update_status
V2_Job_update_status(j, new_status, t) ==
  IF new_status \in V2_VALID_STATUSES
  THEN [ret |-> TRUE, job |-> [j EXCEPT !.status = new_status, !.updated_at = t]]
  ELSE [ret |-> FALSE, job |-> j]

--------------------------------------------------------------------------
\* Inputs the operator (or the caller's environment) can supply

Smith == <<"J", " ", "S", "m", "i", "t", "h">>
SmithMail == <<"s", "m", "i", "t", "h", "@", "x">>

\* name, phone, email typed at the Add New Customer prompts / form
PresetA == [name |-> Smith, phone |-> <<"5", "5", "1">>, email |-> <<"j", "@", "x">>]
PresetB == [name |-> <<"A", "n", "n">>, phone |-> <<"5", "5", "2">>, email |-> SmithMail]
PresetC == [name |-> <<"B", "o">>, phone |-> <<"7", "7">>, email |-> <<"b", "o", "@", "y">>]
NoName  == [name |-> <<>>, phone |-> <<"7", "7">>, email |-> <<>>]

SearchTerms == {<<"S", "M", "I", "T", "H">>, <<"5", "5">>, <<"o">>, <<"z">>, <<>>}

At(y, mo, d, h, mi, pad) == [y |-> y, mo |-> mo, d |-> d, h |-> h, mi |-> mi, pad |-> pad]

Jan01 == At(2025, 1, 1, 10, 0, TRUE)
Jan01Unpadded == At(2025, 1, 1, 10, 0, FALSE)
Jun01 == At(2025, 6, 1, 9, 0, TRUE)
Dec25 == At(2024, 12, 25, 8, 0, TRUE)
BadDate == At(2025, 13, 40, 99, 99, TRUE)

Price(n) == [t |-> "str", v |-> n]
NotANumber == [t |-> "text", v |-> 0]
Amount(n) == [t |-> "float", v |-> n]

Line(lp, core, rp) == [lpad |-> lp, core |-> core, rpad |-> rp]

FilterLines == {Line(0, "", 0), Line(0, "Completed", 1), Line(0, "Scheduled", 0),
                Line(0, "Bogus", 0)}

\* a text typed as an identifier that is no key and that uuid4 never returns
NoSuchId == -1

\* str(uuid.uuid4()): an identifier no entry uses yet (the least such number)
uuid4(used) ==
  CHOOSE n \in 1..(Cardinality(used) + 1) :
    n \notin used /\ \A m \in 1..(n - 1) : m \in used

CustomerIds(cs) == Keys(cs) \cup {cs[i].val.customer_id : i \in 1..Len(cs)}
JobIds(js) == Keys(js) \cup {js[i].val.job_id : i \in 1..Len(js)}

--------------------------------------------------------------------------
\* The backing files customers.json and jobs.json

FMissing == [kind |-> "missing", data |-> <<>>]
FUnreadable == [kind |-> "unreadable", data |-> <<>>]
FBadJson == [kind |-> "badjson", data |-> <<>>]
FList == [kind |-> "list", data |-> <<>>]
FObject(d) == [kind |-> "object", data |-> d]

Entry(k, v) == [key |-> k, val |-> v]

\* a customers.json record as save_all writes it
SavedCustomer ==
  [customer_id |-> 1, name |-> Smith, phone |-> <<"5", "5", "1">>,
   email |-> <<"j", "@", "x">>, address |-> "1 Dock Rd", boat_make |-> "Catalina",
   boat_model |-> "C30", boat_length |-> 30, boat_name |-> <<>>]

\* a record with required fields absent
PartialCustomer == [name |-> Smith]

\* a jobs.json record written by hand with the constructor's parameter names
HandJob ==
  [customer_id |-> 1, service_type |-> "Launch", scheduled_datetime_str |-> Jan01,
   origin_location |-> <<"A">>, destination_location |-> <<"B">>,
   quoted_price |-> Amount(-50), status |-> "Bogus"]

\* a jobs.json record as save_all writes it
SavedJob ==
  [job_id |-> 1, customer_id |-> 1, service_type |-> "Launch",
   scheduled_datetime |-> Jan01, origin_location |-> <<"A">>,
   destination_location |-> <<"B">>, quoted_price |-> Amount(150),
   status |-> "Paid", notes |-> <<>>, created_at |-> 0, updated_at |-> 0]

\* (customers.json, jobs.json) as the program can find them at start
CliFiles ==
  {<<FMissing, FMissing>>,
   <<FUnreadable, FBadJson>>,
   <<FObject(<<Entry(1, SavedCustomer)>>), FObject(<<Entry(1, HandJob)>>)>>,
   <<FObject(<<Entry(1, SavedCustomer)>>), FObject(<<Entry(1, SavedJob)>>)>>,
   <<FObject(<<Entry(1, PartialCustomer)>>), FMissing>>,
   <<FList, FMissing>>,
   <<FBadJson, FList>>}

\* the v2 script is modelled on files that hold a JSON object of whole records
V2Files ==
  {<<FMissing, FMissing>>,
   <<FBadJson, FBadJson>>,
   <<FUnreadable, FMissing>>,
   <<FObject(<<Entry(1, SavedCustomer)>>), FObject(<<Entry(1, SavedJob)>>)>>}

\* load_data (Cleaned): missing, IOError and JSONDecodeError give {}
load_data(f) ==
  IF f.kind = "missing" THEN Ok(FObject(<<>>))
  ELSE IF f.kind \in {"unreadable", "badjson"} THEN Ok(FObject(<<>>))
  ELSE Ok(f)

\* load_data (v2): only JSONDecodeError is caught
V2_load_data(f) ==
  IF f.kind = "missing" THEN Ok(FObject(<<>>))
  ELSE IF f.kind = "unreadable" THEN Raise("PermissionError")
  ELSE IF f.kind = "badjson" THEN Ok(FObject(<<>>))
  ELSE Ok(f)

\* save_data with the except clause left out: a failure is raised
save_data_no_except(data, f, how) ==
  IF how = "ok" THEN [file |-> FObject(data), raised |-> FALSE]
  ELSE IF how = "open" THEN [file |-> f, raised |-> TRUE]
  ELSE [file |-> FBadJson, raised |-> TRUE]

\* save_data: open(file_path, 'w') then json.dump; how == "ok", "open" (the
\* open fails, the file is untouched) or "write" (the write fails after the
\* file was truncated).  The except clause prints the failure: nothing is
\* raised to the caller.
save_data(data, f, how) ==
  IF how = "ok" THEN [file |-> FObject(data), raised |-> FALSE]
  ELSE IF how = "open" THEN [file |-> f, raised |-> FALSE]
  ELSE [file |-> FBadJson, raised |-> FALSE]

SaveOutcomes == {"ok", "open", "write"}

--------------------------------------------------------------------------
\* BoatHaulingManager (ECM_Haul_Streamlit_Cleaned.py): pure parts

RECURSIVE load_customers(_, _)
\* {cid: Customer.from_dict(cdata) for cid, cdata in data.items()}
load_customers(entries, acc) ==
  IF entries = <<>> THEN Ok(acc)
  ELSE LET r == Customer_from_dict(Head(entries).val,
                                   uuid4(CustomerIds(acc) \cup Keys(entries)))
       IN IF r.ok THEN load_customers(Tail(entries), Put(acc, Head(entries).key, r.val))
          ELSE r

RECURSIVE load_jobs(_, _, _)
\* {jid: Job.from_dict(jdata) for jid, jdata in data.items()}
load_jobs(entries, acc, t) ==
  IF entries = <<>> THEN Ok(acc)
  ELSE LET r == Job_from_dict(Head(entries).val,
                              uuid4(JobIds(acc) \cup Keys(entries)), t)
       IN IF r.ok THEN load_jobs(Tail(entries), Put(acc, Head(entries).key, r.val), t)
          ELSE r

\* load_data(path).items(): a JSON document that is no object has no items;
\* what load_data raises goes through
load_items(f) ==
  LET r == load_data(f)
  IN IF ~r.ok THEN r
     ELSE IF r.val.kind = "object" THEN Ok(r.val.data)
     ELSE Raise("AttributeError")

\* BoatHaulingManager.__init__: customers first, then jobs
manager_load(cf, jf, t) ==
  LET ci == load_items(cf)
      cs == IF ci.ok THEN load_customers(ci.val, <<>>) ELSE ci
      ji == load_items(jf)
      js == IF ji.ok THEN load_jobs(ji.val, <<>>, t) ELSE ji
  IN IF ~cs.ok THEN cs
     ELSE IF ~js.ok THEN js
     ELSE Ok([customers |-> cs.val, jobs |-> js.val])

\* the dict comprehensions of save_all
dump_customers(cs) == [i \in 1..Len(cs) |-> Entry(cs[i].key, Customer_to_dict(cs[i].val))]
dump_jobs(js) == [i \in 1..Len(js) |-> Entry(js[i].key, Job_to_dict(js[i].val))]

\* the test of the search loop's body with the email line left out
search_match_no_email(search_term, customer) ==
  \/ str_in(search_term, lower(customer.name))
  \/ str_in(search_term, lower(customer.phone))

\* the test of the search loop's body
search_match(search_term, customer) ==
  \/ str_in(search_term, lower(customer.name))
  \/ str_in(search_term, lower(customer.phone))
  \/ str_in(search_term, lower(customer.email))

RECURSIVE search_loop(_, _, _)
\* for cust_id, customer in self.customers.items(): ... results.append(customer)
search_loop(entries, search_term, results) ==
  IF entries = <<>> THEN results
  ELSE search_loop(Tail(entries), search_term,
                   IF search_match(search_term, Head(entries).val)
                   THEN Append(results, Head(entries).val)
                   ELSE results)

None == [some |-> FALSE]
Some(v) == [some |-> TRUE, val |-> v]

\* find_customer_interactive: the results list it builds and prints, and the
\* value it returns (the multiple-match branch prints the list and falls off
\* the end of the function)
find_customer_interactive(term, cs) ==
  LET search_term == lower(term)
      results == search_loop(cs, search_term, <<>>)
  IN IF search_term = <<>> THEN [results |-> <<>>, ret |-> None, msg |-> "empty"]
     ELSE IF results = <<>> THEN [results |-> results, ret |-> None, msg |-> "none"]
     ELSE IF Len(results) = 1
          THEN [results |-> results, ret |-> Some(results[1]), msg |-> "one"]
     ELSE [results |-> results, ret |-> None, msg |-> "multiple"]

RECURSIVE sort_insert(_, _)
\* place x behind every element whose key is not greater (list.sort is stable)
sort_insert(sorted, x) ==
  IF sorted = <<>> THEN <<x>>
  ELSE IF strptime(Head(sorted).scheduled_datetime) <= strptime(x.scheduled_datetime)
       THEN <<Head(sorted)>> \o sort_insert(Tail(sorted), x)
       ELSE <<x>> \o sorted

RECURSIVE sort_by_scheduled(_, _)
\* jobs_to_display.sort(key=lambda j: datetime.strptime(j.scheduled_datetime, ...))
sort_by_scheduled(todo, sorted) ==
  IF todo = <<>> THEN sorted
  ELSE sort_by_scheduled(Tail(todo), sort_insert(sorted, Head(todo)))

RECURSIVE filter_loop(_, _, _)
\* for job_id, job in self.jobs.items(): if filter_status and job.status != ...
filter_loop(entries, filter_status, acc) ==
  IF entries = <<>> THEN acc
  ELSE filter_loop(Tail(entries), filter_status,
                   IF filter_status # "" /\ Head(entries).val.status # filter_status
                   THEN acc
                   ELSE Append(acc, Head(entries).val))

\* list_jobs: the jobs it prints, in the order it prints them
list_jobs_shown(line, js) ==
  IF js = <<>> THEN <<>>
  ELSE LET typed == strip(line)
           filter_status == IF typed # "" /\ typed \notin VALID_STATUSES THEN "" ELSE typed
           jobs_to_display == filter_loop(js, filter_status, <<>>)
       IN sort_by_scheduled(jobs_to_display, <<>>)

\* View Jobs branch (v2): the rows handed to st.dataframe
V2_view_jobs_shown(status_filter, js) ==
  IF status_filter # "All"
  THEN SelectSeq(Values(js), LAMBDA j : j.status = status_filter)
  ELSE Values(js)

--------------------------------------------------------------------------
\* State machine.  variant: which program runs.  phase: "new" before the
\* collections are loaded, "up" while they are held, "down" after the load
\* raised.  last: the operation just performed, its inputs and what it
\* reported.

InitWith(CLI_FILES, V2_FILES) ==
  /\ variant \in {"cli", "v2"}
  /\ \E f \in (IF variant = "cli" THEN CLI_FILES ELSE V2_FILES) :
       custFile = f[1] /\ jobFile = f[2]
  /\ phase = "new"
  /\ customers = <<>>
  /\ jobs = <<>>
  /\ now = 0
  /\ last = [op |-> "start"]
  /\ steps = 0

\* every step of a run counts against the bound
Advance == steps < MaxSteps /\ steps' = steps + 1

\* datetime.now() moves on
Tick ==
  /\ Advance
  /\ now' = now + 1
  /\ last' = [op |-> "tick"]
  /\ UNCHANGED <<variant, phase, customers, jobs, custFile, jobFile>>

\* business_manager = BoatHaulingManager()
BoatHaulingManager_init ==
  /\ variant = "cli" /\ phase = "new"
  /\ Advance
  /\ LET r == manager_load(custFile, jobFile, now)
     IN IF r.ok
        THEN /\ phase' = "up"
             /\ customers' = r.val.customers
             /\ jobs' = r.val.jobs
             /\ last' = [op |-> "init", res |-> "ok"]
        ELSE /\ phase' = "down"
             /\ UNCHANGED <<customers, jobs>>
             /\ last' = [op |-> "init", res |-> r.err]
  /\ UNCHANGED <<variant, custFile, jobFile, now>>

\* add_customer with line 125 left out: the customer is built and its id
\* returned, and the mapping is left as it was
add_customer_call_not_stored(p, bound, cs) ==
  IF ~bound THEN Raise("NameError")
  ELSE Ok([id |-> uuid4(CustomerIds(cs)), customers |-> cs])

\* The body of add_customer once its prompts are answered with preset p.
\* boat_length and boat_name are free names of the function: it reads them
\* from the module's globals, where the caller's environment may (bound) or
\* may not have put them; unbound, line 124 raises NameError.
add_customer_call(p, bound, cs) ==
  IF ~bound THEN Raise("NameError")
  ELSE LET c == Customer_init(
                  [name |-> p.name, phone |-> p.phone, email |-> p.email,
                   address |-> "1 Dock Rd", boat_make |-> "Catalina",
                   boat_model |-> "C30", boat_length |-> 30, boat_name |-> <<>>,
                   customer_id |-> 0], uuid4(CustomerIds(cs)))
       IN Ok([id |-> c.customer_id, customers |-> Put(cs, c.customer_id, c)])

\* manager.add_customer()
add_customer(PRESETS) ==
  /\ variant = "cli" /\ phase = "up"
  /\ Advance
  /\ \E p \in PRESETS, bound \in BOOLEAN :
       LET r == add_customer_call(p, bound, customers)
       IN IF r.ok
          THEN /\ customers' = r.val.customers
               /\ last' = [op |-> "add_customer", res |-> "added", id |-> r.val.id]
          ELSE /\ customers' = customers
               /\ last' = [op |-> "add_customer", res |-> r.err, id |-> 0]
  /\ UNCHANGED <<variant, phase, jobs, custFile, jobFile, now>>

\* what add_job leaves in `last`: the branch taken (path), the id typed (cid,
\* 0 when none was asked), the y/n answer, the outcome and the id of the job
\* inserted (0 when none)
AddJobLast(path, cid, yes, res, jid) ==
  [op |-> "add_job", path |-> path, cid |-> cid, yes |-> yes, res |-> res, jid |-> jid]

\* add_job, lines 200-210, for the customer_id the first half settled on and
\* the customers mapping cs it left.  scheduled_datetime_str, quoted_price and
\* notes are free names like those of add_customer.
add_job_create(customer_id, cs, path, cid, yes, DATES, PRICES) ==
  /\ customers' = cs
  /\ \/ /\ jobs' = jobs
        /\ last' = AddJobLast(path, cid, yes, "NameError", 0)
     \/ \E d \in DATES, q \in PRICES :
          LET r == Job_init(
                     [customer_id |-> customer_id, service_type |-> "Launch",
                      scheduled_datetime_str |-> d, origin_location |-> <<"A">>,
                      destination_location |-> <<"B">>, quoted_price |-> q,
                      notes |-> <<>>, job_id |-> 0, status |-> "Scheduled"],
                     uuid4(JobIds(jobs)), now)
          IN IF r.ok
             THEN /\ jobs' = Put(jobs, r.val.job_id, r.val)
                  /\ last' = AddJobLast(path, cid, yes,
                               IF HasKey(cs, customer_id) THEN "added" ELSE "KeyError",
                               r.val.job_id)
             ELSE /\ jobs' = jobs
                  /\ last' = AddJobLast(path, cid, yes, r.err, 0)

\* the prompt answered y, with add_customer's return value dropped: the job
\* is made for the id that was typed
add_job_new_customer_keeping_typed(path, cid, PRESETS, DATES, PRICES) ==
  \E p \in PRESETS, bound \in BOOLEAN :
    LET r == add_customer_call(p, bound, customers)
    IN IF r.ok
       THEN add_job_create(cid, r.val.customers, path, cid, TRUE, DATES, PRICES)
       ELSE /\ UNCHANGED <<customers, jobs>>
            /\ last' = AddJobLast(path, cid, TRUE, r.err, 0)

\* the "Add a new customer now?" / "Add as new customer?" prompt answered y
add_job_new_customer(path, cid, PRESETS, DATES, PRICES) ==
  /\ \E p \in PRESETS, bound \in BOOLEAN :
       LET r == add_customer_call(p, bound, customers)
       IN IF r.ok
          THEN add_job_create(r.val.id, r.val.customers, path, cid, TRUE, DATES, PRICES)
          ELSE /\ UNCHANGED <<customers, jobs>>
               /\ last' = AddJobLast(path, cid, TRUE, r.err, 0)

\* a bare return of add_job
add_job_return(path, cid, res) ==
  /\ UNCHANGED <<customers, jobs>>
  /\ last' = AddJobLast(path, cid, FALSE, res, 0)

\* manager.add_job()
add_job(PRESETS, TERMS, DATES, PRICES) ==
  /\ variant = "cli" /\ phase = "up"
  /\ Advance
  /\ \/ /\ customers = <<>>
        /\ \/ add_job_new_customer("empty", 0, PRESETS, DATES, PRICES)
           \/ add_job_return("empty", 0, "returned")
     \/ /\ customers # <<>>
        /\ \/ \E term \in TERMS :
                LET f == find_customer_interactive(term, customers)
                IN IF f.ret.some
                   THEN add_job_create(f.ret.val.customer_id, customers,
                                       "search", 0, FALSE, DATES, PRICES)
                   ELSE add_job_return("search", 0, "aborted")
           \/ \E cid \in Keys(customers) \cup {NoSuchId} :
                \/ /\ HasKey(customers, cid)
                   /\ add_job_create(cid, customers, "id", cid, FALSE, DATES, PRICES)
                \/ /\ ~HasKey(customers, cid)
                   /\ \/ add_job_new_customer("id", cid, PRESETS, DATES, PRICES)
                      \/ add_job_return("id", cid, "returned")
  /\ UNCHANGED <<variant, phase, custFile, jobFile, now>>

\* menu choice 3: manager.find_customer_interactive()
find_customer(TERMS) ==
  /\ variant = "cli" /\ phase = "up"
  /\ Advance
  /\ \E term \in TERMS :
       LET f == find_customer_interactive(term, customers)
       IN last' = [op |-> "find_customer", term |-> term, results |-> f.results,
                   ret |-> f.ret, msg |-> f.msg]
  /\ UNCHANGED <<variant, phase, customers, jobs, custFile, jobFile, now>>

\* manager.list_jobs()
list_jobs(FILTERS) ==
  /\ variant = "cli" /\ phase = "up"
  /\ Advance
  /\ \E line \in FILTERS :
       last' = [op |-> "list_jobs", filter |-> strip(line),
                shown |-> list_jobs_shown(line, jobs)]
  /\ UNCHANGED <<variant, phase, customers, jobs, custFile, jobFile, now>>

\* manager.update_job_status()
update_job_status(LINES) ==
  /\ variant = "cli" /\ phase = "up"
  /\ Advance
  /\ \E job_id \in Keys(jobs) \cup {NoSuchId} :
       IF ~HasKey(jobs, job_id)
       THEN /\ jobs' = jobs
            /\ last' = [op |-> "update_job_status", job_id |-> job_id,
                        new_status |-> "", res |-> "notfound"]
       ELSE \E line \in LINES :
              LET new_status == strip(line)
                  r == Job_update_status(Get(jobs, job_id), new_status, now)
              IN /\ jobs' = Put(jobs, job_id, r.job)
                 /\ last' = [op |-> "update_job_status", job_id |-> job_id,
                             new_status |-> new_status,
                             res |-> IF r.ret THEN "updated" ELSE "invalid"]
  /\ UNCHANGED <<variant, phase, customers, custFile, jobFile, now>>

\* the two save_data calls of save_all / of the Save All Data branch: an
\* exception leaving the first call would skip the second
save_both(cdata, jdata, h1, h2) ==
  LET r1 == save_data(cdata, custFile, h1)
      r2 == save_data(jdata, jobFile, h2)
  IN /\ custFile' = r1.file
     /\ jobFile' = IF r1.raised THEN jobFile ELSE r2.file
     /\ last' = [op |-> "save_all", customers |-> h1, jobs |-> h2,
                 raised |-> r1.raised \/ r2.raised]

\* manager.save_all()
save_all ==
  /\ variant = "cli" /\ phase = "up"
  /\ Advance
  /\ \E h1 \in SaveOutcomes, h2 \in SaveOutcomes :
       save_both(dump_customers(customers), dump_jobs(jobs), h1, h2)
  /\ UNCHANGED <<variant, phase, customers, jobs, now>>

--------------------------------------------------------------------------
\* The script of ECM_Haul_Streamlit_v2.py; st.session_state.customers and
\* st.session_state.jobs hold the raw dicts

\* Session State Initialization
V2_session_init ==
  /\ variant = "v2" /\ phase = "new"
  /\ Advance
  /\ LET c == V2_load_data(custFile)
         j == V2_load_data(jobFile)
     IN IF c.ok /\ j.ok
        THEN /\ phase' = "up"
             /\ customers' = c.val.data
             /\ jobs' = j.val.data
             /\ last' = [op |-> "init", res |-> "ok"]
        ELSE /\ phase' = "down"
             /\ UNCHANGED <<customers, jobs>>
             /\ last' = [op |-> "init", res |-> IF c.ok THEN j.err ELSE c.err]
  /\ UNCHANGED <<variant, custFile, jobFile, now>>

\* Add New Customer
V2_add_customer(PRESETS) ==
  /\ variant = "v2" /\ phase = "up"
  /\ Advance
  /\ \E p \in PRESETS :
       IF p.name = <<>>
       THEN /\ customers' = customers
            /\ last' = [op |-> "add_customer", res |-> "name required", id |-> 0]
       ELSE LET c == V2_Customer_init(
                       [name |-> p.name, phone |-> p.phone, email |-> p.email,
                        address |-> "1 Dock Rd", boat_make |-> "Catalina",
                        boat_model |-> "C30", customer_id |-> 0],
                       uuid4(CustomerIds(customers)))
            IN /\ customers' = Put(customers, c.customer_id, c)
               /\ last' = [op |-> "add_customer", res |-> "added", id |-> c.customer_id]
  /\ UNCHANGED <<variant, phase, jobs, custFile, jobFile, now>>

\* Add New Job: the customer comes from a selectbox over the mapping's keys,
\* the date and time from widgets, the price from a number_input with
\* min_value=0.0
V2_add_job(DATES, AMOUNTS) ==
  /\ variant = "v2" /\ phase = "up"
  /\ Advance
  /\ \/ /\ customers = <<>>
        /\ UNCHANGED jobs
        /\ last' = AddJobLast("form", 0, FALSE, "warning", 0)
     \/ /\ customers # <<>>
        /\ \E customer_choice \in Keys(customers), d \in DATES, n \in AMOUNTS,
              destination \in {<<>>, <<"B">>} :
             LET r == V2_Job_init(
                        [customer_id |-> customer_choice, service_type |-> "Launch",
                         scheduled_dt |-> [isdt |-> TRUE, at |-> d],
                         origin |-> <<"A">>, destination |-> destination,
                         quoted_price |-> Amount(n), notes |-> <<>>, job_id |-> 0,
                         status |-> "Scheduled"],
                        uuid4(JobIds(jobs)), now)
             IN /\ jobs' = Put(jobs, r.val.job_id, r.val)
                /\ last' = AddJobLast("form", customer_choice, FALSE, "added",
                                      r.val.job_id)
  /\ UNCHANGED <<variant, phase, customers, custFile, jobFile, now>>

\* View Jobs
V2_view_jobs(FILTERS) ==
  /\ variant = "v2" /\ phase = "up"
  /\ Advance
  /\ \E status_filter \in FILTERS :
       last' = [op |-> "list_jobs",
                filter |-> IF status_filter = "All" THEN "" ELSE status_filter,
                shown |-> V2_view_jobs_shown(status_filter, jobs)]
  /\ UNCHANGED <<variant, phase, customers, jobs, custFile, jobFile, now>>

\* Update Job Status, the "Update Status" button pressed
V2_update_job_status ==
  /\ variant = "v2" /\ phase = "up"
  /\ Advance
  /\ jobs # <<>>
  /\ \E job_choice \in Keys(jobs), new_status \in V2_VALID_STATUSES :
       LET job_data == Get(jobs, job_choice)
           job_obj == V2_Job_from_data(job_data, uuid4(JobIds(jobs)), now)
       IN IF ~job_obj.ok
          THEN /\ jobs' = jobs
               /\ last' = [op |-> "update_job_status", job_id |-> job_choice,
                           new_status |-> new_status, res |-> job_obj.err]
          ELSE LET u == V2_Job_update_status(job_obj.val, new_status, now)
               IN IF u.ret
                  THEN /\ jobs' = Put(jobs, job_choice,
                                      [job_data EXCEPT !.status = new_status,
                                                       !.updated_at = u.job.updated_at])
                       /\ last' = [op |-> "update_job_status", job_id |-> job_choice,
                                   new_status |-> new_status, res |-> "updated"]
                  ELSE /\ jobs' = jobs
                       /\ last' = [op |-> "update_job_status", job_id |-> job_choice,
                                   new_status |-> new_status, res |-> "invalid"]
  /\ UNCHANGED <<variant, phase, customers, custFile, jobFile, now>>

\* Save All Data
V2_save_all ==
  /\ variant = "v2" /\ phase = "up"
  /\ Advance
  /\ \E h1 \in SaveOutcomes, h2 \in SaveOutcomes :
       save_both(customers, jobs, h1, h2)
  /\ UNCHANGED <<variant, phase, customers, jobs, now>>

\* the process ends (menu choice 8 after its save, a closed session, a
\* traceback) and the program is started again on the files as they are
Exit ==
  /\ phase \in {"up", "down"}
  /\ Advance
  /\ phase' = "new"
  /\ customers' = <<>>
  /\ jobs' = <<>>
  /\ last' = [op |-> "exit"]
  /\ UNCHANGED <<variant, custFile, jobFile, now>>

--------------------------------------------------------------------------
\* Specifications

OneCustomer == FObject(<<Entry(1, SavedCustomer)>>)

\* adding jobs and updating their status, on inputs that decide what is stored
Init ==
  InitWith({<<FMissing, FMissing>>, <<OneCustomer, FObject(<<Entry(1, HandJob)>>)>>},
           {<<FMissing, FMissing>>,
            <<OneCustomer, FObject(<<Entry(1, [SavedJob EXCEPT !.status = "Bogus"])>>)>>})

Next ==
  \/ Tick
  \/ BoatHaulingManager_init
  \/ add_customer({PresetA})
  \/ add_job({PresetA}, {<<"5", "5">>}, {Jan01, BadDate},
             {Price(150), Price(-50), NotANumber})
  \/ update_job_status({Line(0, "Completed", 0), Line(1, "Paid", 1),
                        Line(0, "NotAStatus", 0)})
  \/ V2_session_init
  \/ V2_add_customer({PresetA, NoName})
  \/ V2_add_job({Jan01}, {0, 150})
  \/ V2_update_job_status

Spec == Init /\ [][Next]_vars

\* loading and saving, on every kind of backing file
InitStore == InitWith(CliFiles, V2Files)

NextStore ==
  \/ BoatHaulingManager_init
  \/ add_customer({PresetA})
  \/ add_job({PresetA}, {<<"5", "5">>}, {Jan01}, {Price(150)})
  \/ save_all
  \/ V2_session_init
  \/ V2_add_customer({PresetA})
  \/ V2_add_job({Jan01}, {150})
  \/ V2_save_all
  \/ Exit

SpecStore == InitStore /\ [][NextStore]_vars

\* searching and listing, on inputs that decide what is shown
InitView ==
  InitWith({<<FMissing, FMissing>>,
            <<OneCustomer, FObject(<<Entry(1, [HandJob EXCEPT !.status = "Completed"])>>)>>},
           {<<FMissing, FMissing>>, <<OneCustomer, FObject(<<Entry(1, SavedJob)>>)>>})

NextView ==
  \/ BoatHaulingManager_init
  \/ add_customer({PresetB, PresetC})
  \/ add_job({PresetC}, {<<"o">>}, {Jan01Unpadded, Dec25}, {Price(150)})
  \/ find_customer(SearchTerms)
  \/ list_jobs(FilterLines)
  \/ V2_session_init
  \/ V2_add_customer({PresetB})
  \/ V2_add_job({Jun01, Dec25}, {150})
  \/ V2_view_jobs({"All", "Completed", "Scheduled"})

SpecView == InitView /\ [][NextView]_vars

\* the manager's own operations on a store that starts empty
InitIntegrity == InitWith({<<FMissing, FMissing>>}, {<<FMissing, FMissing>>})

NextIntegrity ==
  \/ BoatHaulingManager_init
  \/ add_customer({PresetA, PresetB})
  \/ add_job({PresetC}, {<<"5", "5">>, <<"5", "5", "2">>}, {Jan01, BadDate}, {Price(150)})
  \/ update_job_status({Line(0, "Completed", 0), Line(0, "NotAStatus", 0)})
  \/ save_all
  \/ V2_session_init
  \/ V2_add_customer({PresetA, PresetB})
  \/ V2_add_job({Jan01}, {150})
  \/ V2_update_job_status
  \/ V2_save_all

SpecIntegrity == InitIntegrity /\ [][NextIntegrity]_vars

--------------------------------------------------------------------------
\* Properties

\* the status enumeration the running program is configured with
Statuses == IF variant = "cli" THEN VALID_STATUSES ELSE V2_VALID_STATUSES

\* C1: serialise then deserialise is the identity for both entity types:
\* for every customer and every job the manager holds, from_dict(to_dict(x))
\* succeeds and gives back x in every field.
C1_RoundTripIdentity ==
  (variant = "cli" /\ phase = "up") =>
    /\ \A i \in 1..Len(customers) :
         LET c == customers[i].val
             r == Customer_from_dict(Customer_to_dict(c), uuid4(CustomerIds(customers)))
         IN r.ok /\ r.val = c
    /\ \A i \in 1..Len(jobs) :
         LET j == jobs[i].val
             r == Job_from_dict(Job_to_dict(j), uuid4(JobIds(jobs)), now)
         IN r.ok /\ r.val = j

\* the step just taken is add_job answering the "Enter Customer ID" prompt
\* with a text that is no key of the customers mapping
AddJobWithUnknownId ==
  /\ last'.op = "add_job"
  /\ last'.path = "id"
  /\ ~HasKey(customers, last'.cid)

C3_InvalidStatusRejected ==
  [][(/\ last'.op = "update_job_status"
      /\ HasKey(jobs, last'.job_id)
      /\ last'.new_status \notin Statuses)
     => (/\ last'.res = "invalid"
         /\ jobs' = jobs)]_vars

\* C3 witness: a stored job was offered "NotAStatus" after the clock moved
C3_Witness ==
  /\ last.op = "update_job_status"
  /\ last.new_status = "NotAStatus"
  /\ HasKey(jobs, last.job_id)
  /\ Get(jobs, last.job_id).updated_at < now

\* C4: updating a stored job's status to any member of the status
\* enumeration, whatever its current status, returns success, sets status to
\* new_status and sets updated_at to a timestamp not before the prior one.
C4_ValidStatusAccepted ==
  [][(/\ last'.op = "update_job_status"
      /\ HasKey(jobs, last'.job_id)
      /\ last'.new_status \in Statuses)
     => (/\ last'.res = "updated"
         /\ Get(jobs', last'.job_id).status = last'.new_status
         /\ Get(jobs', last'.job_id).updated_at >= Get(jobs, last'.job_id).updated_at)
  ]_vars

\* C5: in every reachable state of the record store the status of every job
\* held is a member of the status enumeration.
C5_StatusInEnumeration ==
  phase = "up" => \A i \in 1..Len(jobs) : jobs[i].val.status \in Statuses

\* C9: a negative or non-numeric quoted_price is rejected and nothing is
\* inserted, so every job held has quoted_price >= 0.
C9_NoNegativePriceStored ==
  phase = "up" => \A i \in 1..Len(jobs) : jobs[i].val.quoted_price.v >= 0

\* a file that is absent, not readable, or not JSON
Unusable(f) == f.kind \in {"missing", "unreadable", "badjson"}

\* a file whose content is no mapping of well-formed records: not JSON, JSON
\* that is no object, or an object with a record that lacks fields every
\* record of that file has
Corrupt(f, fields) ==
  \/ f.kind \in {"badjson", "list"}
  \/ f.kind = "object" /\ \E i \in 1..Len(f.data) : ~(fields \subseteq DOMAIN f.data[i].val)

CorruptCustomers(f) == Corrupt(f, {"name", "phone", "email"})
CorruptJobs(f) == Corrupt(f, {"customer_id", "service_type", "quoted_price"})

\* the manager's constructor has just run (on the files as they still are)
Constructed == variant = "cli" /\ last.op = "init"

\* C8: with each backing file missing, unreadable or corrupt (not a valid
\* mapping of well-formed records), the constructor completes and the
\* collection of every such file is empty.
C8_LoadNeverFails ==
  (/\ Constructed
   /\ Unusable(custFile) \/ CorruptCustomers(custFile)
   /\ Unusable(jobFile) \/ CorruptJobs(jobFile))
  => (phase = "up" /\ customers = <<>> /\ jobs = <<>>)

\* C10: save never changes the in-memory state: whether each write succeeds
\* or fails, the customers and jobs mappings are the same after save as
\* before, a failure is reported and not raised, and the store stays up.
C10_SaveKeepsMemory ==
  [][last'.op = "save_all" =>
       /\ customers' = customers
       /\ jobs' = jobs
       /\ ~last'.raised
       /\ phase' = "up"]_vars

\* C10 witness: a save whose two writes both failed, with entities in memory
C10_Witness ==
  /\ last.op = "save_all"
  /\ last.customers = "open"
  /\ last.jobs = "write"
  /\ customers # <<>> /\ jobs # <<>>
  /\ jobFile.kind = "badjson"

\* two characters that are the same up to letter case
SameLetter(a, b) ==
  \/ a = b
  \/ \E i \in 1..Len(UpperChars) : {a, b} = {UpperChars[i], LowerChars[i]}

\* t occurs in s as a contiguous run, letter case ignored
ContainsCI(s, t) ==
  \E k \in 0..(Len(s) - Len(t)) : \A i \in 1..Len(t) : SameLetter(s[k + i], t[i])

NotLater(a, b) ==
  LET ka == <<a.y, a.mo, a.d, a.h, a.mi>>
      kb == <<b.y, b.mo, b.d, b.h, b.mi>>
  IN \/ ka = kb
     \/ \E i \in 1..5 : ka[i] < kb[i] /\ \A k \in 1..(i - 1) : ka[k] = kb[k]

\* C7: a listing shows exactly the jobs whose status equals the filter when
\* the filter is a member of the status enumeration and all jobs otherwise,
\* in both cases sorted ascending by scheduled_datetime.
C7_ListFilteredAndSorted ==
  (phase = "up" /\ last.op = "list_jobs") =>
    LET want == IF last.filter \in Statuses
                THEN SelectSeq(Values(jobs), LAMBDA j : j.status = last.filter)
                ELSE Values(jobs)
        shown == last.shown
    IN /\ Len(shown) = Len(want)
       /\ {shown[i] : i \in 1..Len(shown)} = {want[i] : i \in 1..Len(want)}
       /\ \A i \in 1..(Len(shown) - 1) :
            NotLater(shown[i].scheduled_datetime, shown[i + 1].scheduled_datetime)

====
